---- MODULE Spec2Model ----
(***************************************************************************)
(* A model of the KEMBACOIN node core: Block hashing and mining            *)
(* (blockchain/block.py), the chain acceptance rules                       *)
(* (blockchain/blockchain.py), the QSystem admission ledger                *)
(* (blockchain/q_system.py) and the peer message handler                   *)
(* (blockchain/p2p_network.py).                                            *)
(*                                                                         *)
(* Strings are sequences of character codes: 0..9 are the decimal digits,  *)
(* 10..15 the hexadecimal digits a..f, larger codes the punctuation that   *)
(* the formatted block content contains.  A digest is a sequence of        *)
(* HashLen hexadecimal digits.                                             *)
(***************************************************************************)
EXTENDS Integers, Sequences, FiniteSets, TLC

VARIABLES
    chain,                  \* Blockchain.chain: sequence of block records
    difficulty,             \* Blockchain.difficulty (configured, fixed after construction)
    pending_transactions,   \* Blockchain.pending_transactions: sequence of transaction ids
    global_transaction_log, \* QSystem.global_transaction_log: id -> entry (a dict)
    timeout_threshold,      \* QSystem.timeout_threshold, an exact fraction [num, den]
    failed_nodes,           \* QSystem.failed_nodes: node id -> fault record (a dict)
    now,                    \* the clock read by time.time()
    blk,                    \* the Block object a caller holds: <<>> or <<block>>
    pc,                     \* where that object is: idle, built, mining, mined, submitted
    iteration,              \* Block.mine_block: local iteration counter
    max_iterations,         \* Block.mine_block: parameter max_iterations
    op,                     \* the operation that ran last
    arg,                    \* its id, node or signal argument (0 when it has none)
    ret,                    \* what it returned or raised, as a string
    msg,                    \* P2PNode.handle_client: the message received last
    response,               \* P2PNode.handle_client: the status it replied
    data,                   \* QSystem.load_data: the parsed file (NoData when not running)
    load_pc,                \* QSystem.load_data: idle, ledger_set, nodes_set
    reason,                 \* P2PNode.handle_client: the reason key of its reply
    peers,                  \* P2PNode.peers: the registry, a sequence of peer addresses
    outbox,                 \* the send attempts of the broadcast that ran last
    logged                  \* the log record of the last call, for the
                            \* operations whose outcome shows in the log

vars == <<chain, difficulty, pending_transactions, global_transaction_log,
          timeout_threshold, failed_nodes, now, blk, pc, iteration,
          max_iterations, op, arg, ret, msg, response, data, load_pc,
          reason, peers, outbox, logged>>

qvars == <<global_transaction_log, timeout_threshold, failed_nodes>>
minervars == <<blk, pc, iteration, max_iterations>>
loadvars == <<data, load_pc>>
netvars == <<peers, outbox>>

(***************************************************************************)
(* Bounds of the model.                                                    *)
(***************************************************************************)
HashLen == 3          \* hexadecimal digits of a modelled digest
MaxDifficulty == 1    \* configured difficulty ranges over 0..MaxDifficulty
MaxChain == 2         \* the chain holds at most this many blocks
MaxIter == 3          \* max_iterations ranges over 1..MaxIter
MaxPending == 2       \* the pending pool holds at most this many transactions
MaxAdapt == 1         \* adapt_timeout changes the threshold at most this often
MaxFailures == 4      \* monitor_node is called while the count is below this
MaxThreshold == 30    \* in a long run adapt_timeout is called while the threshold is at most this

(***************************************************************************)
(* Text.                                                                   *)
(***************************************************************************)
Chr(c) ==
    CASE c = "." -> 16
      [] c = "[" -> 17
      [] c = "]" -> 18
      [] c = "," -> 19
      [] c = " " -> 20
      [] c = "{" -> 21
      [] c = "}" -> 22

\* str(n) for a natural number: its decimal digits
RECURSIVE Str(_)
Str(n) == IF n < 10 THEN <<n>> ELSE Str(n \div 10) \o <<n % 10>>

\* json.dumps(transactions, sort_keys=True); a transaction is rendered by its id
RECURSIVE json_items(_)
json_items(txs) ==
    IF txs = <<>> THEN <<>>
    ELSE <<Chr("{")>> \o Str(Head(txs)) \o <<Chr("}")>>
         \o (IF Tail(txs) = <<>> THEN <<>> ELSE <<Chr(","), Chr(" ")>>)
         \o json_items(Tail(txs))

json_dumps(txs) == <<Chr("[")>> \o json_items(txs) \o <<Chr("]")>>

\* "0" * d
RECURSIVE Zeros(_)
Zeros(d) == IF d <= 0 THEN <<>> ELSE <<0>> \o Zeros(d - 1)

\* s.startswith(p)
startswith(s, p) ==
    /\ Len(p) <= Len(s)
    /\ \A i \in 1..Len(p) : s[i] = p[i]

(***************************************************************************)
(* hashlib.sha256(text).hexdigest(), modelled by a deterministic mixing    *)
(* function onto HashLen hexadecimal digits.                               *)
(***************************************************************************)
\* the mixing of the first n characters of s
RECURSIVE Mix(_, _)
Mix(s, n) ==
    IF n = 0 THEN 5381 % (16 ^ HashLen)
    ELSE (Mix(s, n - 1) * 41 + s[n] + 1) % (16 ^ HashLen)

\* the HashLen hexadecimal digits of v
hexdigest(v) == [i \in 1..HashLen |-> (v \div (16 ^ (HashLen - i))) % 16]

sha256_hexdigest(s) == hexdigest(Mix(s, Len(s)))

(***************************************************************************)
(* Block (blockchain/block.py).                                            *)
(***************************************************************************)
DefaultVersion == <<4, Chr("."), 0>>      \* "4.0"

calculate_hash(b) ==
    sha256_hexdigest(
        Str(b.index) \o b.previous_hash \o Str(b.timestamp)
        \o json_dumps(b.transactions)
        \o Str(b.kemites_reward) \o Str(b.nonce1) \o Str(b.nonce2) \o Str(b.nonce3)
        \o Str(b.difficulty) \o b.version)

calculate_static_hash_content(b) ==
    Str(b.index) \o b.previous_hash \o Str(b.timestamp)
    \o json_dumps(b.transactions)
    \o Str(b.kemites_reward) \o Str(b.difficulty) \o b.version

\* Block.__init__: the hash is computed after all other attributes are set
set_hash(fields) == [fields EXCEPT !.hash = calculate_hash(fields)]

Block(index, previous_hash, timestamp, transactions, kemites_reward, nonce1, nonce2, nonce3, d, version) ==
    set_hash([index |-> index, previous_hash |-> previous_hash,
              timestamp |-> timestamp, transactions |-> transactions,
              kemites_reward |-> kemites_reward,
              nonce1 |-> nonce1, nonce2 |-> nonce2, nonce3 |-> nonce3,
              difficulty |-> d, version |-> version, hash |-> <<>>])

validate_hash(b) == b.hash = calculate_hash(b)

NonceLimit == 1000000

\* one pass through the body of the while loop of Block.mine_block, up to the
\* recomputation of the hash
\* the loop body without the two rollover tests: nonce1 grows without limit
mine_iteration_no_rollover(b) ==
    LET c == [b EXCEPT !.nonce1 = b.nonce1 + 1]
    IN  [c EXCEPT !.hash = sha256_hexdigest(
                      calculate_static_hash_content(b)
                      \o Str(c.nonce1) \o Str(c.nonce2) \o Str(c.nonce3))]

mine_iteration(b) ==
    LET n1 == b.nonce1 + 1
        roll1 == n1 >= NonceLimit
        n2 == IF roll1 THEN b.nonce2 + 1 ELSE b.nonce2
        roll2 == roll1 /\ n2 >= NonceLimit
        c == [b EXCEPT !.nonce1 = IF roll1 THEN 0 ELSE n1,
                       !.nonce2 = IF roll2 THEN 0 ELSE n2,
                       !.nonce3 = IF roll2 THEN b.nonce3 + 1 ELSE b.nonce3]
    IN  [c EXCEPT !.hash = sha256_hexdigest(
                      calculate_static_hash_content(b)
                      \o Str(c.nonce1) \o Str(c.nonce2) \o Str(c.nonce3))]

meets_target(b) == startswith(b.hash, Zeros(b.difficulty))

(***************************************************************************)
(* Blockchain (blockchain/blockchain.py).                                  *)
(***************************************************************************)
GenesisTimestamp == 1700000000

create_genesis_block(d) ==
    Block(0, <<0>>, GenesisTimestamp, <<>>, 0, 0, 0, 0, d, DefaultVersion)

get_latest_block == chain[Len(chain)]

\* add_block without its last check (hash equals the recomputed hash)
add_block_accepts_unverified(block) ==
    IF block.previous_hash # get_latest_block.hash THEN FALSE
    ELSE IF block.difficulty # difficulty THEN FALSE
    ELSE IF ~startswith(block.hash, Zeros(block.difficulty)) THEN FALSE
    ELSE TRUE

\* add_block without its first check (previous_hash equals the tip's hash)
add_block_accepts_unlinked(block) ==
    IF block.difficulty # difficulty THEN FALSE
    ELSE IF ~startswith(block.hash, Zeros(block.difficulty)) THEN FALSE
    ELSE IF block.hash # calculate_hash(block) THEN FALSE
    ELSE TRUE

\* add_block without its second check (difficulty equals the configured one)
add_block_accepts_any_difficulty(block) ==
    IF block.previous_hash # get_latest_block.hash THEN FALSE
    ELSE IF ~startswith(block.hash, Zeros(block.difficulty)) THEN FALSE
    ELSE IF block.hash # calculate_hash(block) THEN FALSE
    ELSE TRUE

\* Blockchain.add_block: the four checks in order, then the append
add_block_accepts(block) ==
    IF block.previous_hash # get_latest_block.hash THEN FALSE
    ELSE IF block.difficulty # difficulty THEN FALSE
    ELSE IF ~startswith(block.hash, Zeros(block.difficulty)) THEN FALSE
    ELSE IF block.hash # calculate_hash(block) THEN FALSE
    ELSE TRUE

\* add_block with its second check made before its first
add_block_logs_difficulty_first(block) ==
    IF block.difficulty # difficulty THEN "Difficulty mismatch"
    ELSE IF block.previous_hash # get_latest_block.hash THEN "Previous hash mismatch"
    ELSE IF ~startswith(block.hash, Zeros(block.difficulty))
         THEN "Proof of Work mismatch"
    ELSE IF block.hash # calculate_hash(block) THEN "Hash mismatch"
    ELSE "added to the chain successfully"

\* what add_block logs: the warning of the first check that fails, or the
\* info message of the append
add_block_logs(block) ==
    IF block.previous_hash # get_latest_block.hash THEN "Previous hash mismatch"
    ELSE IF block.difficulty # difficulty THEN "Difficulty mismatch"
    ELSE IF ~startswith(block.hash, Zeros(block.difficulty))
         THEN "Proof of Work mismatch"
    ELSE IF block.hash # calculate_hash(block) THEN "Hash mismatch"
    ELSE "added to the chain successfully"

add_block(block) ==
    /\ logged' = add_block_logs(block)
    /\ IF add_block_accepts(block)
       THEN /\ chain' = Append(chain, block)
            /\ ret' = "True"
       ELSE /\ chain' = chain
            /\ ret' = "False"

(***************************************************************************)
(* Inputs.                                                                 *)
(***************************************************************************)
NoMsg == [type |-> "none", transaction_id |-> 0, index |-> 0,
          previous_hash |-> <<>>, timestamp |-> 0, transactions |-> <<>>,
          kemites_reward |-> 0, nonce1 |-> 0, nonce2 |-> 0, nonce3 |-> 0,
          difficulty |-> 0, hash |-> <<>>]

\* the field values from which callers and peers build blocks
Indexes == {1, 2}
Timestamps == {0}
Nonces == {0, 1}
Difficulties == 0..MaxDifficulty
\* the difficulty a block is built with: the chain's, or one that differs
BlockDifficulties == {difficulty, (difficulty + 1) % (MaxDifficulty + 1)}
\* the transactions a block is assembled from: none, or the pending pool
TxLists == {<<>>, pending_transactions}
\* the hashes a sender knows: the tip's, the genesis block's, the sentinel "0"
PrevHashes == {get_latest_block.hash, chain[1].hash, <<0>>}

(***************************************************************************)
(* Initial state: the state after Blockchain.__init__ and QSystem.__init__ *)
(***************************************************************************)
InitThreshold == [num |-> 30, den |-> 1]

\* the local variable data of load_data while load_data is not running
NoData == <<>>

Init ==
    /\ difficulty \in Difficulties
    /\ chain = <<create_genesis_block(difficulty)>>
    /\ pending_transactions = <<>>
    /\ global_transaction_log = <<>>
    /\ timeout_threshold = InitThreshold
    /\ failed_nodes = <<>>
    /\ now = 0
    /\ blk = <<>>
    /\ pc = "idle"
    /\ iteration = 0
    /\ max_iterations = 0
    /\ op = "init"
    /\ arg = 0
    /\ ret = "None"
    /\ msg = NoMsg
    /\ response = "none"
    /\ reason = "none"
    /\ data = NoData
    /\ load_pc = "idle"
    /\ peers = <<>>
    /\ outbox = <<>>
    /\ logged = "none"

\* msg, response and reason are locals of handle_client: no other operation
\* has them, and no other operation but a broadcast touches the network
NoReply == msg' = NoMsg /\ response' = "none" /\ reason' = "none"
Quiet == NoReply /\ UNCHANGED netvars

(***************************************************************************)
(* A caller constructs a Block object.                                     *)
(***************************************************************************)
NewBlock ==
    /\ pc \in {"idle", "submitted"}
    /\ \E index \in Indexes, previous_hash \in PrevHashes, timestamp \in Timestamps,
          transactions \in TxLists, nonce1 \in Nonces, d \in BlockDifficulties :
          blk' = <<Block(index, previous_hash, timestamp, transactions, 0,
                         nonce1, 0, 0, d, DefaultVersion)>>
    /\ pc' = "built"
    /\ op' = "Block"
    /\ arg' = 0
    /\ ret' = "None"
    /\ UNCHANGED <<loadvars, chain, difficulty, pending_transactions, qvars, now,
                   iteration, max_iterations>>
    /\ Quiet
    /\ logged' = "none"

(***************************************************************************)
(* Block.mine_block(max_iterations), one loop pass per step.               *)
(***************************************************************************)
MineBegin ==
    /\ pc = "built"
    /\ \E m \in 1..MaxIter : max_iterations' = m
    /\ iteration' = 0
    /\ pc' = "mining"
    /\ op' = "mine_block"
    /\ arg' = 0
    /\ ret' = "running"
    /\ UNCHANGED <<loadvars, chain, difficulty, pending_transactions, qvars, now, blk>>
    /\ Quiet
    /\ logged' = "none"

\* the loop without the test of the cap: it ends on a target match only
MineIter_uncapped ==
    /\ pc = "mining"
    /\ ~meets_target(blk[1])
    /\ iteration < 2 * MaxIter
    /\ blk' = <<mine_iteration(blk[1])>>
    /\ iteration' = iteration + 1
    /\ pc' = "mining"
    /\ ret' = "running"
    /\ UNCHANGED <<loadvars, chain, difficulty, pending_transactions, qvars, now,
                   max_iterations, op, arg>>
    /\ Quiet
    /\ logged' = "none"

\* the loop condition holds: one pass; the pass ends the loop at the cap
MineIter ==
    /\ pc = "mining"
    /\ ~meets_target(blk[1])
    /\ blk' = <<mine_iteration(blk[1])>>
    /\ iteration' = iteration + 1
    /\ IF iteration' >= max_iterations
       THEN pc' = "mined" /\ ret' = "None"
       ELSE pc' = "mining" /\ ret' = "running"
    /\ UNCHANGED <<loadvars, chain, difficulty, pending_transactions, qvars, now,
                   max_iterations, op, arg>>
    /\ Quiet
    /\ logged' = "none"

\* the loop condition fails: the method logs and returns None
MineExit ==
    /\ pc = "mining"
    /\ meets_target(blk[1])
    /\ pc' = "mined"
    /\ ret' = "None"
    /\ UNCHANGED <<loadvars, chain, difficulty, pending_transactions, qvars, now, blk,
                   iteration, max_iterations, op, arg>>
    /\ Quiet
    /\ logged' = "none"

\* the nonces a mining run holds when nonce1, or nonce1 and nonce2, are
\* about to reach the limit
RolloverNonces1 == {0, NonceLimit - 2, NonceLimit - 1}
RolloverNonces2 == {0, NonceLimit - 1}

\* a caller constructs, on the tip, a Block that carries such nonces
NewBlockAt ==
    /\ pc \in {"idle", "mined"}
    /\ \E index \in Indexes, nonce1 \in RolloverNonces1, nonce2 \in RolloverNonces2 :
          blk' = <<Block(index, get_latest_block.hash, 0, <<>>, 0,
                         nonce1, nonce2, 0, difficulty, DefaultVersion)>>
    /\ pc' = "built"
    /\ op' = "Block"
    /\ arg' = 0
    /\ ret' = "None"
    /\ UNCHANGED <<loadvars, chain, difficulty, pending_transactions, qvars, now,
                   iteration, max_iterations>>
    /\ Quiet
    /\ logged' = "none"

\* the text that a pass of the mining loop hashes when the nonces are
\* nonces: f"{static_content}{nonce1}{nonce2}{nonce3}"
hash_input(b, nonces) ==
    calculate_static_hash_content(b)
    \o Str(nonces[1]) \o Str(nonces[2]) \o Str(nonces[3])

\* nonce triples that one run from (0,0,0) passes through within the default
\* cap of 10^8 passes
TrialNonces == {0, 1, 11} \X {0, 1, 11} \X {0}

\* the texts of two trials of the run in progress are compared
HashInputs ==
    /\ pc = "mining"
    /\ \E first \in TrialNonces, second \in TrialNonces :
          /\ arg' = <<first, second>>
          /\ ret' = IF hash_input(blk[1], first) = hash_input(blk[1], second)
                    THEN "same" ELSE "different"
    /\ op' = "hash_input"
    /\ UNCHANGED <<loadvars, chain, difficulty, pending_transactions, qvars, now,
                   minervars>>
    /\ Quiet
    /\ logged' = "none"

(***************************************************************************)
(* A caller passes the Block object it holds to Blockchain.add_block.      *)
(***************************************************************************)
AddBlockCall ==
    /\ pc \in {"built", "mined"}
    /\ add_block_accepts(blk[1]) => Len(chain) < MaxChain
    /\ add_block(blk[1])
    /\ pc' = "submitted"
    /\ op' = "add_block"
    /\ arg' = 0
    /\ UNCHANGED <<loadvars, difficulty, pending_transactions, qvars, now, blk,
                   iteration, max_iterations>>
    /\ Quiet

(***************************************************************************)
(* QSystem (blockchain/q_system.py).  Every method body runs under         *)
(* self.lock, so each is one step.                                         *)
(***************************************************************************)
\* the transaction ids and the node ids that callers use
Ids == {1, 2}
Nodes == {1}
\* the instants at which the clock is read
TimePoints == {0, 30, 300, 301}

Put(dict, key, value) ==
    [k \in DOMAIN dict \cup {key} |-> IF k = key THEN value ELSE dict[k]]

\* Block.to_dict as stored by log_transaction: a copy of the block's fields
to_dict(block) == block

\* elapsed > threshold, the threshold being the fraction num/den
Exceeds(elapsed, threshold) == elapsed * threshold.den > threshold.num

\* log_transaction without the duplicate check: an existing entry is replaced
log_transaction_overwrite(transaction_id, block) ==
    /\ global_transaction_log' =
            Put(global_transaction_log, transaction_id,
                [status |-> "pending", timestamp |-> now,
                 block |-> to_dict(block)])
    /\ ret' = "True"

\* log_transaction that rejects a duplicate but refreshes its entry's timestamp
log_transaction_refresh(transaction_id, block) ==
    IF transaction_id \in DOMAIN global_transaction_log
    THEN /\ global_transaction_log' =
                [global_transaction_log EXCEPT ![transaction_id].timestamp = now]
         /\ ret' = "False"
    ELSE /\ global_transaction_log' =
                Put(global_transaction_log, transaction_id,
                    [status |-> "pending", timestamp |-> now,
                     block |-> to_dict(block)])
         /\ ret' = "True"

log_transaction(transaction_id, block) ==
    IF transaction_id \in DOMAIN global_transaction_log
    THEN /\ global_transaction_log' = global_transaction_log
         /\ ret' = "False"
    ELSE /\ global_transaction_log' =
                Put(global_transaction_log, transaction_id,
                    [status |-> "pending", timestamp |-> now,
                     block |-> to_dict(block)])
         /\ ret' = "True"

\* validate_transaction that tests the elapsed time before the status
validate_transaction_time_first(transaction_id) ==
    IF transaction_id \notin DOMAIN global_transaction_log THEN "invalid"
    ELSE LET entry == global_transaction_log[transaction_id]
             elapsed_time == now - entry.timestamp
         IN  IF Exceeds(elapsed_time, timeout_threshold) THEN "late"
             ELSE IF entry.status = "completed" THEN "duplicate"
             ELSE "valid"

\* the classification validate_transaction returns; it changes nothing
validate_transaction(transaction_id) ==
    IF transaction_id \notin DOMAIN global_transaction_log THEN "invalid"
    ELSE LET entry == global_transaction_log[transaction_id]
             elapsed_time == now - entry.timestamp
         IN  IF entry.status = "completed" THEN "duplicate"
             ELSE IF Exceeds(elapsed_time, timeout_threshold) THEN "late"
             ELSE "valid"

\* mark_transaction_completed that enters an unknown id as completed
mark_transaction_completed_creates(transaction_id) ==
    IF transaction_id \in DOMAIN global_transaction_log
    THEN /\ global_transaction_log' =
                [global_transaction_log EXCEPT ![transaction_id].status = "completed"]
         /\ logged' = "marked as completed"
    ELSE /\ global_transaction_log' =
                Put(global_transaction_log, transaction_id,
                    [status |-> "completed", timestamp |-> now,
                     block |-> to_dict(get_latest_block)])
         /\ logged' = "not found in log"

\* the method returns None on both paths; what tells them apart is the log
\* record: logging.info on a known id, logging.error on an unknown one
mark_transaction_completed(transaction_id) ==
    IF transaction_id \in DOMAIN global_transaction_log
    THEN /\ global_transaction_log' =
                [global_transaction_log EXCEPT ![transaction_id].status = "completed"]
         /\ logged' = "marked as completed"
    ELSE /\ global_transaction_log' = global_transaction_log
         /\ logged' = "not found in log"

monitor_node(node_id) ==
    /\ failed_nodes' =
          IF node_id \notin DOMAIN failed_nodes
          THEN Put(failed_nodes, node_id, [failures |-> 0, last_failure |-> now])
          ELSE [failed_nodes EXCEPT ![node_id] =
                    [failures |-> @.failures + 1, last_failure |-> now]]
    /\ ret' = IF failed_nodes'[node_id].failures > 3 THEN "True" ELSE "False"

LearningRateDen == 10      \* learning_rate = 0.1 = 1/LearningRateDen
MinThreshold == 5

\* the threshold is a float: a fraction is exact down to 1/Precision and is
\* truncated to that resolution beyond it
Precision == 10 ^ 3

Round(f) ==
    IF f.den > Precision
    THEN [num |-> f.num \div (f.den \div Precision), den |-> Precision]
    ELSE f

\* adapt_timeout without the floor: max(5, ...) left out
adapt_timeout_unclamped(network_conditions) ==
    LET t == timeout_threshold
        up == Round([num |-> t.num * (LearningRateDen + 1),
                     den |-> t.den * LearningRateDen])
        down == Round([num |-> t.num * (LearningRateDen - 1),
                       den |-> t.den * LearningRateDen])
    IN  timeout_threshold' =
            IF network_conditions = "congested" THEN up
            ELSE IF network_conditions = "smooth" THEN down
            ELSE t

\* adapt_timeout that adds the learning rate itself when congested
adapt_timeout_additive(network_conditions) ==
    LET t == timeout_threshold
        up == Round([num |-> t.num * LearningRateDen + t.den,
                     den |-> t.den * LearningRateDen])
        down == Round([num |-> t.num * (LearningRateDen - 1),
                       den |-> t.den * LearningRateDen])
    IN  timeout_threshold' =
            IF network_conditions = "congested" THEN up
            ELSE IF network_conditions = "smooth"
                 THEN IF MinThreshold * down.den >= down.num
                      THEN [num |-> MinThreshold, den |-> 1]
                      ELSE down
            ELSE t

adapt_timeout(network_conditions) ==
    LET t == timeout_threshold
        up == Round([num |-> t.num * (LearningRateDen + 1),
                     den |-> t.den * LearningRateDen])
        down == Round([num |-> t.num * (LearningRateDen - 1),
                       den |-> t.den * LearningRateDen])
    IN  timeout_threshold' =
            IF network_conditions = "congested" THEN up
            ELSE IF network_conditions = "smooth"
                 THEN IF MinThreshold * down.den >= down.num
                      THEN [num |-> MinThreshold, den |-> 1]
                      ELSE down
            ELSE t

RecoveryTime == 300

\* recover_failed_nodes with >= in place of >
recover_failed_nodes_at_300 ==
    failed_nodes' =
        [n \in {m \in DOMAIN failed_nodes :
                    ~(now - failed_nodes[m].last_failure >= RecoveryTime)}
            |-> failed_nodes[n]]

recover_failed_nodes ==
    failed_nodes' =
        [n \in {m \in DOMAIN failed_nodes :
                    ~(now - failed_nodes[m].last_failure > RecoveryTime)}
            |-> failed_nodes[n]]

(***************************************************************************)
(* Calls of the QSystem methods, and the passing of time.                  *)
(***************************************************************************)
Tick ==
    /\ \E t \in TimePoints : t > now /\ now' = t
    /\ op' = "tick"
    /\ arg' = 0
    /\ ret' = "None"
    /\ UNCHANGED <<loadvars, chain, difficulty, pending_transactions, qvars, minervars>>
    /\ Quiet
    /\ logged' = "none"

\* the block a caller passes to log_transaction: the candidate block, built
\* on the tip at the current time, that contains the transaction
LogBlock(id) ==
    Block(Len(chain), get_latest_block.hash, now, <<id>>, 0, 0, 0, 0,
          difficulty, DefaultVersion)

LogTransaction ==
    /\ \E id \in Ids :
          /\ log_transaction(id, LogBlock(id))
          /\ arg' = id
    /\ op' = "log_transaction"
    /\ UNCHANGED <<loadvars, chain, difficulty, pending_transactions, timeout_threshold,
                   failed_nodes, now, minervars>>
    /\ Quiet
    /\ logged' = "none"

\* validate_transaction that drops the entry of an id it classifies late
ValidateTransaction_expires ==
    /\ \E id \in Ids :
          /\ ret' = validate_transaction(id)
          /\ arg' = id
          /\ global_transaction_log' =
                IF ret' = "late"
                THEN [k \in DOMAIN global_transaction_log \ {id} |->
                         global_transaction_log[k]]
                ELSE global_transaction_log
    /\ op' = "validate_transaction"
    /\ UNCHANGED <<loadvars, chain, difficulty, pending_transactions,
                   timeout_threshold, failed_nodes, now, minervars>>
    /\ Quiet
    /\ logged' = "none"

ValidateTransaction ==
    /\ \E id \in Ids :
          /\ ret' = validate_transaction(id)
          /\ arg' = id
    /\ op' = "validate_transaction"
    /\ UNCHANGED <<loadvars, chain, difficulty, pending_transactions, qvars, now,
                   minervars>>
    /\ Quiet
    /\ logged' = "none"

MarkTransactionCompleted ==
    /\ \E id \in Ids :
          /\ mark_transaction_completed(id)
          /\ arg' = id
    /\ op' = "mark_transaction_completed"
    /\ ret' = "None"
    /\ UNCHANGED <<loadvars, chain, difficulty, pending_transactions, timeout_threshold,
                   failed_nodes, now, minervars>>
    /\ Quiet

MonitorNode ==
    /\ \E n \in Nodes :
          /\ n \in DOMAIN failed_nodes => failed_nodes[n].failures < MaxFailures
          /\ monitor_node(n)
          /\ arg' = n
    /\ op' = "monitor_node"
    /\ UNCHANGED <<loadvars, chain, difficulty, pending_transactions, global_transaction_log,
                   timeout_threshold, now, minervars>>
    /\ Quiet
    /\ logged' = "none"

Signals == {"congested", "smooth", "other"}

AdaptTimeout ==
    /\ timeout_threshold.den < LearningRateDen ^ MaxAdapt
    /\ \E s \in Signals :
          /\ adapt_timeout(s)
          /\ arg' = s
    /\ op' = "adapt_timeout"
    /\ ret' = "None"
    /\ UNCHANGED <<loadvars, chain, difficulty, pending_transactions, global_transaction_log,
                   failed_nodes, now, minervars>>
    /\ Quiet
    /\ logged' = "none"

\* adapt_timeout called any number of times, with the threshold at most
\* MaxThreshold seconds before the call
AdaptTimeoutAny ==
    /\ timeout_threshold.num <= MaxThreshold * timeout_threshold.den
    /\ \E s \in Signals :
          /\ adapt_timeout(s)
          /\ arg' = s
    /\ op' = "adapt_timeout"
    /\ ret' = "None"
    /\ UNCHANGED <<loadvars, chain, difficulty, pending_transactions,
                   global_transaction_log, failed_nodes, now, minervars>>
    /\ Quiet
    /\ logged' = "none"

RecoverFailedNodes ==
    /\ recover_failed_nodes
    /\ op' = "recover_failed_nodes"
    /\ arg' = 0
    /\ ret' = "None"
    /\ UNCHANGED <<loadvars, chain, difficulty, pending_transactions, global_transaction_log,
                   timeout_threshold, now, minervars>>
    /\ Quiet
    /\ logged' = "none"

(***************************************************************************)
(* QSystem.load_data(file_path).  The method does not take self.lock: its  *)
(* three assignments are three steps, and the methods of other threads run *)
(* between them.  Reading and parsing the file touches no shared state and *)
(* is part of the first step.  A missing or malformed file raises inside   *)
(* the try block: the exception is logged and nothing is assigned.         *)
(***************************************************************************)
\* what persist_data wrote at an earlier time: the state of a QSystem that
\* had logged one transaction and adapted its threshold once, or the state
\* of a QSystem that had done nothing
Files ==
    { [global_transaction_log |->
           Put(<<>>, 1, [status |-> "pending", timestamp |-> 0,
                         block |-> to_dict(LogBlock(1))]),
       failed_nodes |-> <<>>,
       timeout_threshold |-> [num |-> 27, den |-> 1]],
      [global_transaction_log |-> <<>>,
       failed_nodes |-> <<>>,
       timeout_threshold |-> InitThreshold] }

\* load_data whose failure comes after its first assignment, as it would
\* with data["failed_nodes"] in place of data.get("failed_nodes", {})
LoadDataOpen_fails_late ==
    /\ load_pc = "idle"
    /\ \E readable \in BOOLEAN :
          IF ~readable
          THEN \E file \in Files :
                  /\ global_transaction_log' = file.global_transaction_log
                  /\ ret' = "None"
                  /\ logged' = "Failed to load Q System data"
                  /\ UNCHANGED loadvars
          ELSE \E file \in Files :
                  /\ data' = file
                  /\ global_transaction_log' = file.global_transaction_log
                  /\ load_pc' = "ledger_set"
                  /\ ret' = "running"
                  /\ logged' = "none"
    /\ op' = "load_data"
    /\ arg' = 0
    /\ UNCHANGED <<chain, difficulty, pending_transactions, timeout_threshold,
                   failed_nodes, now, minervars>>
    /\ Quiet

LoadDataOpen ==
    /\ load_pc = "idle"
    /\ \E readable \in BOOLEAN :
          IF ~readable
          THEN /\ ret' = "None"
               /\ logged' = "Failed to load Q System data"
               /\ UNCHANGED <<global_transaction_log, loadvars>>
          ELSE \E file \in Files :
                  /\ data' = file
                  /\ global_transaction_log' = file.global_transaction_log
                  /\ load_pc' = "ledger_set"
                  /\ ret' = "running"
                  /\ logged' = "none"
    /\ op' = "load_data"
    /\ arg' = 0
    /\ UNCHANGED <<chain, difficulty, pending_transactions, timeout_threshold,
                   failed_nodes, now, minervars>>
    /\ Quiet

LoadDataNodes ==
    /\ load_pc = "ledger_set"
    /\ failed_nodes' = data.failed_nodes
    /\ load_pc' = "nodes_set"
    /\ op' = "load_data"
    /\ arg' = 0
    /\ ret' = "running"
    /\ UNCHANGED <<chain, difficulty, pending_transactions, global_transaction_log,
                   timeout_threshold, now, minervars, data>>
    /\ Quiet
    /\ logged' = "none"

LoadDataThreshold ==
    /\ load_pc = "nodes_set"
    /\ timeout_threshold' = data.timeout_threshold
    /\ load_pc' = "idle"
    /\ data' = NoData
    /\ op' = "load_data"
    /\ arg' = 0
    /\ ret' = "None"
    /\ UNCHANGED <<chain, difficulty, pending_transactions, global_transaction_log,
                   failed_nodes, now, minervars>>
    /\ Quiet
    /\ logged' = "Q System data loaded"

(***************************************************************************)
(* QSystem.persist_data(file_path).  It reads the three fields and writes  *)
(* them to the file inside a try block; an exception of open or of         *)
(* json.dump is caught and logged.  The file is not part of the state: a   *)
(* later load_data reads one of Files.                                     *)
(***************************************************************************)
PersistData ==
    /\ \E writable \in BOOLEAN :
          logged' = IF writable THEN "Q System data persisted"
                    ELSE "Failed to persist Q System data"
    /\ op' = "persist_data"
    /\ arg' = 0
    /\ ret' = "None"
    /\ UNCHANGED <<loadvars, chain, difficulty, pending_transactions, qvars, now,
                   minervars>>
    /\ Quiet

(***************************************************************************)
(* Blockchain.mine_block(active_miners, kemites_reward).  The chain stays  *)
(* shorter than the first bonus-block index (len(chain) + 7 at the least), *)
(* so the miner is active_miners[0].  The call                             *)
(* self.q_system.log_transaction(reward_id) passes no block, which         *)
(* QSystem.log_transaction requires: it raises TypeError before the        *)
(* reward is added to the pool and before any block is built.              *)
(***************************************************************************)
MinerLists == {<<"miner">>, <<"">>}

\* mine_block with the log_transaction call passing: the block is built on
\* the list that is the pool, appended, and the pool, which is the block's
\* list, is cleared
BlockchainMineBlock_past_log ==
    /\ pc \in {"idle", "submitted"}
    /\ \E active_miners \in MinerLists :
          /\ IF pending_transactions = <<>> \/ active_miners[1] = ""
                \/ Len(chain) >= MaxChain
             THEN UNCHANGED <<chain, pending_transactions>>
             ELSE /\ chain' = Append(chain,
                            [Block(Len(chain), get_latest_block.hash, now,
                                   pending_transactions, 0, 0, 0, 0,
                                   difficulty, DefaultVersion)
                             EXCEPT !.transactions = <<>>])
                  /\ pending_transactions' = <<>>
          /\ ret' = "None"
          /\ arg' = active_miners[1]
    /\ op' = "Blockchain.mine_block"
    /\ blk' = <<>>
    /\ pc' = "idle"
    /\ UNCHANGED <<loadvars, difficulty, qvars, now, iteration, max_iterations>>
    /\ Quiet
    /\ logged' = "none"

BlockchainMineBlock ==
    /\ pc \in {"idle", "submitted"}
    /\ \E active_miners \in MinerLists :
          /\ ret' = IF pending_transactions = <<>> THEN "None"
                    ELSE IF active_miners[1] = "" THEN "None"
                    ELSE "TypeError"
          /\ arg' = active_miners[1]
    /\ op' = "Blockchain.mine_block"
    /\ blk' = <<>>
    /\ pc' = "idle"
    /\ UNCHANGED <<loadvars, chain, difficulty, pending_transactions, qvars, now,
                   iteration, max_iterations>>
    /\ Quiet
    /\ logged' = "none"

(***************************************************************************)
(* Blockchain.add_transaction is called by the handlers but defined        *)
(* nowhere in the sources; it is modelled as the specification describes   *)
(* it: an attempt to add to the pending pool that succeeds or fails.       *)
(***************************************************************************)
add_transaction(transaction_id, accepted) ==
    pending_transactions' =
        IF accepted THEN Append(pending_transactions, transaction_id)
        ELSE pending_transactions

(***************************************************************************)
(* P2PNode.handle_client (blockchain/p2p_network.py).                      *)
(***************************************************************************)
\* a digest with its last digit altered
Tamper(h) == [h EXCEPT ![Len(h)] = (@ + 1) % 16]

TransactionMessages ==
    {[NoMsg EXCEPT !.type = "transaction", !.transaction_id = id] : id \in Ids}

\* the payload of a block message for block b, carrying hash h
BlockMessage(b, h) ==
    [type |-> "block", transaction_id |-> 0, index |-> b.index,
     previous_hash |-> b.previous_hash, timestamp |-> b.timestamp,
     transactions |-> b.transactions, kemites_reward |-> b.kemites_reward,
     nonce1 |-> b.nonce1, nonce2 |-> b.nonce2, nonce3 |-> b.nonce3,
     difficulty |-> b.difficulty, hash |-> h]

\* a peer sends a block with its hash, or with the hash field altered
BlockMessages ==
    UNION {
        {BlockMessage(b, b.hash), BlockMessage(b, Tamper(b.hash))} :
        b \in {Block(index, previous_hash, timestamp, <<>>, 0, nonce1, 0, 0, d,
                     DefaultVersion) :
                   index \in Indexes, previous_hash \in PrevHashes,
                   timestamp \in Timestamps, nonce1 \in Nonces,
                   d \in BlockDifficulties} }

\* a peer sends a block that carries one transaction, built on the tip at the
\* chain's difficulty
TxBlockMessages ==
    UNION {
        {BlockMessage(b, b.hash)} :
        b \in {Block(Len(chain), get_latest_block.hash, 0, <<id>>, 0, 0, 0, 0,
                     difficulty, DefaultVersion) : id \in Ids} }

OtherMessages == {[NoMsg EXCEPT !.type = "ping"]}

\* the Block the handler reconstructs from the payload of a block message
Reconstruct(m) ==
    Block(m.index, m.previous_hash, m.timestamp, m.transactions,
          m.kemites_reward, m.nonce1, m.nonce2, m.nonce3, m.difficulty,
          DefaultVersion)

\* the transaction branch with the test of the classification left out: the
\* pool is offered every transaction, whatever validate_transaction returned
HandleTransaction_unchecked(m) ==
    LET validation_result == validate_transaction(m.transaction_id)
    IN  /\ Len(pending_transactions) < MaxPending
        /\ \E accepted \in BOOLEAN :
              /\ add_transaction(m.transaction_id, accepted)
              /\ response' = IF accepted THEN "success" ELSE "failed"
        /\ ret' = validation_result
        /\ arg' = m.transaction_id
        /\ reason' = "none"
        /\ logged' = "none"
        /\ UNCHANGED <<chain, minervars>>

HandleTransaction(m) ==
    LET validation_result == validate_transaction(m.transaction_id)
    IN  /\ IF validation_result = "valid"
           THEN /\ Len(pending_transactions) < MaxPending
                /\ \E accepted \in BOOLEAN :
                      /\ add_transaction(m.transaction_id, accepted)
                      /\ response' = IF accepted THEN "success" ELSE "failed"
           ELSE /\ response' = validation_result
                /\ pending_transactions' = pending_transactions
        /\ ret' = validation_result
        /\ arg' = m.transaction_id
        /\ reason' = "none"
        /\ logged' = "none"
        /\ UNCHANGED <<chain, minervars>>

\* the block branch replying block_added whatever add_block returned
HandleBlock_always_added(m) ==
    \E new_block \in {Reconstruct(m)} :
        /\ add_block_accepts(new_block) => Len(chain) < MaxChain
        /\ add_block(new_block)
        /\ response' = "block_added"
        /\ blk' = <<new_block>>
        /\ reason' = "none"
        /\ pc' = "submitted"
        /\ arg' = 0
        /\ UNCHANGED <<pending_transactions, iteration, max_iterations>>

HandleBlock(m) ==
    \E new_block \in {Reconstruct(m)} :
        /\ add_block_accepts(new_block) => Len(chain) < MaxChain
        /\ add_block(new_block)
        /\ response' = IF ret' = "True" THEN "block_added" ELSE "block_rejected"
        /\ blk' = <<new_block>>
        /\ reason' = "none"
        /\ pc' = "submitted"
        /\ arg' = 0
        /\ UNCHANGED <<pending_transactions, iteration, max_iterations>>

\* HandleUnknown with a reply that lacks the reason key
HandleUnknown_no_reason(m) ==
    /\ response' = "error"
    /\ reason' = "none"
    /\ ret' = "None"
    /\ arg' = 0
    /\ logged' = "none"
    /\ UNCHANGED <<chain, pending_transactions, minervars>>

HandleUnknown(m) ==
    /\ response' = "error"
    /\ reason' = "unknown_message_type"
    /\ ret' = "None"
    /\ arg' = 0
    /\ logged' = "none"
    /\ UNCHANGED <<chain, pending_transactions, minervars>>

handle_client(m) ==
    /\ msg' = m
    /\ op' = "handle_client"
    /\ IF m.type = "transaction" THEN HandleTransaction(m)
       ELSE IF m.type = "block" THEN HandleBlock(m)
       ELSE HandleUnknown(m)
    /\ UNCHANGED <<loadvars, netvars, difficulty, qvars, now>>

\* a block message arrives while no caller of this node is at work on a block
ReceiveBlock ==
    /\ pc \in {"idle", "submitted"}
    /\ \E m \in BlockMessages : handle_client(m)
ReceiveTransaction == \E m \in TransactionMessages : handle_client(m)
ReceiveOther == \E m \in OtherMessages : handle_client(m)
ReceiveTxBlock ==
    /\ pc \in {"idle", "submitted"}
    /\ \E m \in TxBlockMessages : handle_client(m)

(***************************************************************************)
(* Blockchain.add_block run by two threads.  Blockchain has no lock, and   *)
(* the HTTP server handles each request in a thread of its own: the thread *)
(* that holds blk reads the tip and evaluates the four checks in one step  *)
(* and appends in a later step, and a submit_block request of another      *)
(* thread (main.py) runs between the two.  A call starts only while the    *)
(* chain is shorter than MaxChain; the append of a call that has started   *)
(* is always possible.                                                     *)
(***************************************************************************)
AddBlockCheck ==
    /\ pc \in {"built", "mined"}
    /\ add_block_accepts(blk[1]) => Len(chain) < MaxChain
    /\ IF add_block_accepts(blk[1])
       THEN pc' = "checked" /\ ret' = "running" /\ logged' = "none"
       ELSE pc' = "submitted" /\ ret' = "False"
            /\ logged' = add_block_logs(blk[1])
    /\ op' = "add_block"
    /\ arg' = 0
    /\ UNCHANGED <<loadvars, chain, difficulty, pending_transactions, qvars,
                   now, blk, iteration, max_iterations>>
    /\ Quiet

AddBlockAppend ==
    /\ pc = "checked"
    /\ chain' = Append(chain, blk[1])
    /\ ret' = "True"
    /\ logged' = "added to the chain successfully"
    /\ pc' = "submitted"
    /\ op' = "add_block"
    /\ arg' = 0
    /\ UNCHANGED <<loadvars, difficulty, pending_transactions, qvars, now, blk,
                   iteration, max_iterations>>
    /\ Quiet

\* the submit_block route, run to its end by another thread: it rebuilds the
\* block from the request and passes it to add_block
SubmitBlock ==
    /\ \E block_data \in BlockMessages :
          \E new_block \in {Reconstruct(block_data)} :
             /\ add_block_accepts(new_block) => Len(chain) < MaxChain
             /\ add_block(new_block)
    /\ op' = "submit_block"
    /\ arg' = 0
    /\ UNCHANGED <<loadvars, difficulty, pending_transactions, qvars, now,
                   minervars>>
    /\ Quiet

(***************************************************************************)
(* Specifications.                                                         *)
(*   Spec     blocks, mining and the chain                                 *)
(*   SpecQ    the QSystem methods and the clock                            *)
(*   SpecNet  the transaction path of the peer handler, with the ledger    *)
(*   SpecLife a transaction's way from the ledger to a block               *)
(*   SpecLoad the QSystem methods with load_data running beside them       *)
(*   SpecThreads  add_block called by two threads                          *)
(*   SpecAdapt    adapt_timeout called any number of times                 *)
(***************************************************************************)
Next ==
    \/ NewBlock
    \/ MineBegin
    \/ MineIter
    \/ MineExit
    \/ AddBlockCall
    \/ BlockchainMineBlock
    \/ ReceiveBlock

Spec == Init /\ [][Next]_vars

NextQ ==
    \/ Tick
    \/ LogTransaction
    \/ ValidateTransaction
    \/ MarkTransactionCompleted
    \/ MonitorNode
    \/ AdaptTimeout
    \/ RecoverFailedNodes

SpecQ == Init /\ [][NextQ]_vars

(***************************************************************************)
(* The /add_transaction route of the node (blockchain/node.py).  ret is    *)
(* the HTTP status of the response.  After a successful                    *)
(* blockchain.add_transaction the route calls                              *)
(* q_system.log_transaction(transaction_id) without the block argument:    *)
(* the TypeError is caught by the route's except clause and answered 500,  *)
(* and the broadcast that follows in the code is not reached.              *)
(***************************************************************************)
AddTransactionRoute ==
    /\ \E id \in Ids, accepted \in BOOLEAN :
          /\ arg' = id
          /\ \E validation_status \in {validate_transaction(id)} :
                IF validation_status # "valid"
                THEN /\ ret' = "400"
                     /\ UNCHANGED pending_transactions
                ELSE /\ add_transaction(id, accepted)
                     /\ ret' = IF accepted THEN "500" ELSE "400"
    /\ op' = "add_transaction_route"
    /\ UNCHANGED <<loadvars, chain, difficulty, qvars, now, minervars>>
    /\ Quiet
    /\ logged' = "none"

(***************************************************************************)
(* P2PNode.add_peer, broadcast_transaction, broadcast_block and            *)
(* _send_message (blockchain/p2p_network.py).  A broadcast is one call:    *)
(* its loop over self.peers runs to the end inside the step.               *)
(***************************************************************************)
\* the (host, port) pairs that callers register
PeerAddresses == {1, 2}

add_peer(peer_address) ==
    peers' = IF \E i \in 1..Len(peers) : peers[i] = peer_address
             THEN peers
             ELSE Append(peers, peer_address)

AddPeer ==
    /\ \E p \in PeerAddresses :
          /\ add_peer(p)
          /\ arg' = p
    /\ op' = "add_peer"
    /\ ret' = "None"
    /\ outbox' = outbox
    /\ NoReply
    /\ logged' = "none"
    /\ UNCHANGED <<loadvars, chain, difficulty, pending_transactions, qvars, now,
                   minervars>>

\* _send_message: one connect, sendall, close on a fresh socket; an exception
\* of any of them is caught and logged, and the method returns None
send_message(peer, message, reachable) ==
    [peer |-> peer, delivered |-> reachable, message |-> message]

\* str(time.time()), the transaction id that broadcast_transaction assigns
time_id == 1000 + now

\* down: the peers whose connect or send fails during this call.  The loop
\* body assigns transaction['transaction_id'] = str(time.time()) on the
\* caller's dict before each send.  arg records the id the caller passed
\* and the id its dict is left with.
broadcast_transaction(transaction_id, down) ==
    /\ outbox' = [i \in 1..Len(peers) |->
                     send_message(peers[i],
                                  [NoMsg EXCEPT !.type = "transaction",
                                                !.transaction_id = time_id],
                                  peers[i] \notin down)]
    /\ arg' = [passed |-> transaction_id,
               left |-> IF peers = <<>> THEN transaction_id ELSE time_id]
    /\ ret' = "None"

\* broadcast_block whose loop ends at the first peer it cannot reach
broadcast_block_aborts(block, down) ==
    /\ \E last \in {IF \E i \in 1..Len(peers) : peers[i] \in down
                     THEN CHOOSE i \in 1..Len(peers) :
                              /\ peers[i] \in down
                              /\ \A j \in 1..(i - 1) : peers[j] \notin down
                     ELSE Len(peers)} :
          outbox' = [i \in 1..last |->
                        send_message(peers[i], BlockMessage(block, block.hash),
                                     peers[i] \notin down)]
    /\ ret' = "None"

broadcast_block(block, down) ==
    /\ outbox' = [i \in 1..Len(peers) |->
                     send_message(peers[i], BlockMessage(block, block.hash),
                                  peers[i] \notin down)]
    /\ ret' = "None"

BroadcastTransaction ==
    /\ \E id \in Ids, down \in SUBSET PeerAddresses :
          broadcast_transaction(id, down)
    /\ op' = "broadcast_transaction"
    /\ peers' = peers
    /\ NoReply
    /\ logged' = "none"
    /\ UNCHANGED <<loadvars, chain, difficulty, pending_transactions, qvars, now,
                   minervars>>

\* the block passed is the latest block of the chain (node.py, /mine) or the
\* Block object the caller holds
BroadcastBlock ==
    /\ \E block \in {get_latest_block} \cup {blk[i] : i \in 1..Len(blk)},
          down \in SUBSET PeerAddresses :
          broadcast_block(block, down)
    /\ op' = "broadcast_block"
    /\ arg' = 0
    /\ peers' = peers
    /\ NoReply
    /\ logged' = "none"
    /\ UNCHANGED <<loadvars, chain, difficulty, pending_transactions, qvars, now,
                   minervars>>

\* the server of a peer whose chain and difficulty are this state's receives
\* a message that a broadcast delivered
ReceiveBroadcast ==
    /\ pc \in {"idle", "mined", "submitted"}
    /\ \E i \in 1..Len(outbox) :
          /\ outbox[i].delivered
          /\ handle_client(outbox[i].message)

\* a message of a type the dispatch of handle_client does not name
AnchorMessages == {[NoMsg EXCEPT !.type = "bitcoin_anchor"]}
ReceiveAnchor == \E m \in AnchorMessages : handle_client(m)

NextNet ==
    \/ Tick
    \/ LogTransaction
    \/ MarkTransactionCompleted
    \/ ReceiveTransaction
    \/ ReceiveOther
    \/ BlockchainMineBlock
    \/ AddPeer
    \/ ReceiveAnchor

SpecNet == Init /\ [][NextNet]_vars

NextLoad ==
    \/ LogTransaction
    \/ ValidateTransaction
    \/ MonitorNode
    \/ AdaptTimeout
    \/ LoadDataOpen
    \/ LoadDataNodes
    \/ LoadDataThreshold
    \/ PersistData

SpecLoad == Init /\ [][NextLoad]_vars

NextThreads ==
    \/ NewBlock
    \/ AddBlockCheck
    \/ AddBlockAppend
    \/ SubmitBlock

SpecThreads == Init /\ [][NextThreads]_vars

\* the network is congested at the start at most, and smooth afterwards
AdaptTimeoutRun ==
    /\ AdaptTimeoutAny
    /\ arg' = "congested" => timeout_threshold = InitThreshold

NextTimeout ==
    \/ LogTransaction
    \/ MonitorNode
    \/ AdaptTimeoutRun

SpecTimeout == Init /\ [][NextTimeout]_vars

NextAdmit ==
    \/ AddTransactionRoute
    \/ ReceiveTransaction
    \/ Tick
    \/ AddPeer

\* callers and peers keep submitting their transactions
SpecAdmit ==
    /\ Init
    /\ [][NextAdmit]_vars
    /\ WF_vars(AddTransactionRoute)
    /\ WF_vars(ReceiveTransaction)

NextTrials ==
    \/ NewBlockAt
    \/ MineBegin
    \/ MineIter
    \/ MineExit
    \/ HashInputs

SpecTrials == Init /\ [][NextTrials]_vars

NextAdapt ==
    \/ AdaptTimeoutAny

SpecAdapt == Init /\ [][NextAdapt]_vars

\* transactions are admitted before the caller starts on a block
AdmitLog == pc = "idle" /\ LogTransaction
AdmitReceive == pc = "idle" /\ ReceiveTransaction

\* the caller numbers its block after the tip and leaves nonce1 at 0
NewBlockNext ==
    /\ NewBlock
    /\ blk'[1].index = Len(chain)
    /\ blk'[1].nonce1 = 0

NextAppend ==
    \/ AdmitLog
    \/ AdmitReceive
    \/ NewBlockNext
    \/ MineBegin
    \/ MineIter
    \/ MineExit
    \/ AddBlockCall

SpecAppend == Init /\ [][NextAppend]_vars

\* node A registers its peers before it starts on a block
RegisterPeer == pc = "idle" /\ AddPeer

\* node A constructs a block on the tip and mines it with Block.mine_block,
\* as Blockchain.mine_block does; broadcast_block sends it; peer B, whose
\* chain has that tip, handles the message
NextRelay ==
    \/ NewBlockNext
    \/ MineBegin
    \/ MineIter
    \/ MineExit
    \/ RegisterPeer
    \/ BroadcastBlock
    \/ ReceiveBroadcast

SpecRelay == Init /\ [][NextRelay]_vars

NextMine ==
    \/ NewBlockAt
    \/ MineBegin
    \/ MineIter
    \/ MineExit

SpecMine == Init /\ [][NextMine]_vars

\* mine_block is sequential code of a running thread: its loop takes its
\* next pass, or leaves, whenever it can
SpecMineFair == SpecMine /\ WF_vars(MineIter) /\ WF_vars(MineExit)

NextCast ==
    \/ AddPeer
    \/ BroadcastTransaction
    \/ BroadcastBlock
    \/ ReceiveAnchor
    \/ NewBlock
    \/ Tick

SpecCast == Init /\ [][NextCast]_vars

NextLife ==
    \/ LogTransaction
    \/ ReceiveTransaction
    \/ ReceiveTxBlock
    \/ BlockchainMineBlock

SpecLife == Init /\ [][NextLife]_vars

(***************************************************************************)
(* Properties.                                                             *)
(***************************************************************************)
\* the step is a call of Blockchain.add_block: directly, or by the peer
\* handler on the block it has reconstructed; blk' is the block submitted
AddBlockStep ==
    \/ op' = "add_block"
    \/ op' = "handle_client" /\ msg'.type = "block"

\* C1: whenever the submitted block fails one of the four acceptance checks
\* (in particular when its previous_hash is not the tip's hash), add_block
\* returns False and the chain is exactly what it was.
C1_RejectLeavesChain ==
    [][ ( /\ AddBlockStep
          /\ \/ blk'[1].previous_hash # chain[Len(chain)].hash
             \/ blk'[1].difficulty # difficulty
             \/ ~startswith(blk'[1].hash, Zeros(blk'[1].difficulty))
             \/ blk'[1].hash # calculate_hash(blk'[1]) )
        => (ret' = "False" /\ chain' = chain) ]_vars

\* a block that passes the first three checks and fails the last was rejected
C1_Witness ==
    /\ op = "add_block"
    /\ ret = "False"
    /\ blk[1].previous_hash = chain[Len(chain)].hash
    /\ blk[1].difficulty = difficulty
    /\ startswith(blk[1].hash, Zeros(blk[1].difficulty))
    /\ blk[1].hash # calculate_hash(blk[1])

\* C2: a block message whose hash field differs from the hash recomputed from
\* its other fields is answered block_rejected and the chain keeps its length.
C2_TamperedHashRejected ==
    [][ ( /\ op' = "handle_client"
          /\ msg'.type = "block"
          /\ msg'.hash # calculate_hash(Reconstruct(msg')) )
        => (response' = "block_rejected" /\ Len(chain') = Len(chain)) ]_vars

\* C3: when Block.mine_block has returned, the stored hash equals the hash
\* recomputed from the block's fields (validate_hash is True), and so equals
\* the hash of a block reconstructed from those fields.
C3_MinedHashRecomputes ==
    pc = "mined" =>
        /\ validate_hash(blk[1])
        /\ Reconstruct(BlockMessage(blk[1], blk[1].hash)).hash = blk[1].hash

\* C4: when Block.mine_block has returned, the block's hash begins with
\* difficulty '0' digits.
C4_MinedMeetsTarget ==
    pc = "mined" => startswith(blk[1].hash, Zeros(blk[1].difficulty))

\* C5: when mining stopped at the cap without meeting the target, what the
\* caller gets differs from what a successful mine returns (None), and
\* Blockchain.mine_block appends nothing.
C5_CapFailureSurfaced ==
    [][ /\ (pc' = "mined" /\ ~startswith(blk'[1].hash, Zeros(blk'[1].difficulty)))
            => ret' # "None"
        /\ op' = "Blockchain.mine_block" => chain' = chain ]_vars

\* C6: position 0 holds the genesis block (index 0, previous_hash "0") and
\* every later block's previous_hash is the hash of the block before it.
C6_ChainLinked ==
    /\ chain[1].index = 0
    /\ chain[1].previous_hash = <<0>>
    /\ chain[1] = create_genesis_block(difficulty)
    /\ \A i \in 2..Len(chain) : chain[i].previous_hash = chain[i - 1].hash

\* a block has been accepted on top of the genesis block
C6_Witness ==
    /\ Len(chain) >= 2
    /\ ret = "True"
    /\ op \in {"add_block", "handle_client"}

\* C7: once an id is completed, every step keeps its entry completed; a
\* log_transaction of it returns False and a validate_transaction of it
\* returns "duplicate".
C7_CompletedStays ==
    [][ \A id \in Ids :
          ( /\ id \in DOMAIN global_transaction_log
            /\ global_transaction_log[id].status = "completed" )
          => /\ id \in DOMAIN global_transaction_log'
             /\ global_transaction_log'[id].status = "completed"
             /\ (op' = "log_transaction" /\ arg' = id) => ret' = "False"
             /\ (op' = "validate_transaction" /\ arg' = id) => ret' = "duplicate"
      ]_vars

\* a completed id was validated after its timeout had passed, and after a
\* log_transaction of it had been refused
C7_Witness ==
    /\ op = "validate_transaction"
    /\ ret = "duplicate"
    /\ Exceeds(now - global_transaction_log[arg].timestamp, timeout_threshold)

\* C8: log_transaction of an id not in the ledger returns True and inserts a
\* pending entry; of an id in the ledger it returns False and leaves the
\* entry (status, timestamp, block snapshot) as it was.
C8_LogOnce ==
    [][ op' = "log_transaction" =>
          IF arg' \in DOMAIN global_transaction_log
          THEN /\ ret' = "False"
               /\ global_transaction_log' = global_transaction_log
          ELSE /\ ret' = "True"
               /\ arg' \in DOMAIN global_transaction_log'
               /\ global_transaction_log'[arg'].status = "pending"
               /\ \A other \in DOMAIN global_transaction_log :
                     global_transaction_log'[other] = global_transaction_log[other]
      ]_vars

\* a second log_transaction of an id, at a later time, was refused
C8_Witness ==
    /\ op = "log_transaction"
    /\ ret = "False"
    /\ global_transaction_log[arg].timestamp < now
    /\ global_transaction_log[arg].block.timestamp < now

C10_SuccessCompletes ==
    [][ ( /\ op' = "handle_client"
          /\ msg'.type = "transaction" )
        => /\ response' = "success" =>
                global_transaction_log'[msg'.transaction_id].status = "completed"
           /\ (\E i \in 1..Len(pending_transactions) :
                   pending_transactions[i] = msg'.transaction_id)
              => ( /\ response' = "duplicate"
                   /\ pending_transactions' = pending_transactions )
      ]_vars

\* C11: when the handler receives a transaction message whose id
\* validate_transaction classifies as invalid, duplicate or late, the status
\* it replies is that classification, and neither the pending pool nor the
\* admission ledger changes.
C11_RefusalReply ==
    [][ ( /\ op' = "handle_client"
          /\ msg'.type = "transaction"
          /\ validate_transaction(msg'.transaction_id)
                \in {"invalid", "duplicate", "late"} )
        => /\ response' = validate_transaction(msg'.transaction_id)
           /\ pending_transactions' = pending_transactions
           /\ global_transaction_log' = global_transaction_log ]_vars

\* a transaction message was answered late while its id was pending in the
\* ledger
C11_Witness ==
    /\ op = "handle_client"
    /\ msg.type = "transaction"
    /\ response = "late"
    /\ global_transaction_log[msg.transaction_id].status = "pending"

\* C12: a block message is answered block_added exactly when add_block
\* accepted the reconstructed block, the chain then being the old chain with
\* that block at its end, and block_rejected exactly when add_block returned
\* False, the chain then being unchanged.
C12_BlockReply ==
    [][ ( /\ op' = "handle_client"
          /\ msg'.type = "block" )
        => IF add_block_accepts(Reconstruct(msg'))
           THEN /\ response' = "block_added"
                /\ ret' = "True"
                /\ chain' = Append(chain, Reconstruct(msg'))
           ELSE /\ response' = "block_rejected"
                /\ ret' = "False"
                /\ chain' = chain ]_vars

\* a block message was answered block_rejected for a block built on the tip
C12_Witness ==
    /\ op = "handle_client"
    /\ msg.type = "block"
    /\ response = "block_rejected"
    /\ msg.previous_hash = chain[Len(chain)].hash

\* C13: no transaction reaches a block of the chain without having passed
\* validation on its way into the pending pool: whenever a block is appended,
\* each of its transactions is in the pending pool, which only a transaction
\* classified valid enters, and has its entry in the admission ledger.
C13_ValidatedBeforeBlock ==
    [][ Len(chain') > Len(chain) =>
          \A k \in 1..Len(chain'[Len(chain')].transactions) :
             LET id == chain'[Len(chain')].transactions[k]
             IN  /\ \E i \in 1..Len(pending_transactions) :
                       pending_transactions[i] = id
                 /\ id \in DOMAIN global_transaction_log ]_vars

\* C14: Blockchain.mine_block, called with a non-empty pending pool and a
\* miner, consumes the pool into one block: afterwards the chain is one block
\* longer, every transaction that was in the pool is in that block and in no
\* other, the pool is empty, and each of those transactions is completed in
\* the admission ledger.
C14_PoolConsumed ==
    [][ ( /\ op' = "Blockchain.mine_block"
          /\ pending_transactions # <<>>
          /\ arg' # "" )
        => /\ Len(chain') = Len(chain) + 1
           /\ pending_transactions' = <<>>
           /\ \A i \in 1..Len(pending_transactions) :
                 LET id == pending_transactions[i]
                 IN  /\ \E k \in 1..Len(chain'[Len(chain')].transactions) :
                           chain'[Len(chain')].transactions[k] = id
                     /\ \A j \in 1..Len(chain) :
                           \A k \in 1..Len(chain[j].transactions) :
                              chain[j].transactions[k] # id
                     /\ id \in DOMAIN global_transaction_log'
                     /\ global_transaction_log'[id].status = "completed" ]_vars

\* C15: the operations that write the ledger, the failed-node map or the
\* threshold exclude one another: while one of them is between two of its
\* writes no other QSystem method runs, so every interleaving is a sequence
\* of whole operations; and a log_transaction returns True exactly when its
\* id was not in the ledger, so of two calls with the same new id one
\* returns True.
C15_OneLockDomain ==
    [][ /\ load_pc # "idle" => op' = "load_data"
        /\ op' = "log_transaction" =>
              (ret' = "True" <=> arg' \notin DOMAIN global_transaction_log)
      ]_vars

\* C16: under every interleaving of concurrent add_block calls the chain is
\* one hash-linked line: each block is built on the block before it, and no
\* two blocks of the chain are built on the same block.
C16_OneBlockPerTip ==
    /\ \A i \in 1..(Len(chain) - 1) : chain[i + 1].previous_hash = chain[i].hash
    /\ \A i \in 2..Len(chain) : \A j \in 2..Len(chain) :
          i # j => chain[i].previous_hash # chain[j].previous_hash

\* C17: starting from the threshold of 30 seconds, after any sequence of
\* adapt_timeout calls with any signals the threshold is at least 5 seconds.
C17_ThresholdFloor == timeout_threshold.num >= 5 * timeout_threshold.den

\* a smooth signal was answered with the floor: the threshold had been less
\* than 5.56 seconds, which takes seventeen or more smooth signals to reach
C17_Witness ==
    /\ op = "adapt_timeout"
    /\ arg = "smooth"
    /\ timeout_threshold = [num |-> 5, den |-> 1]

\* C18: for a node without a fault record monitor_node returns False on the
\* first, second and third call and True on the fourth and on every later
\* call until the record is removed.  A record with failure count f exists
\* after f + 1 calls, so the call being made is call number f + 2.
C18_FlaggedOnFourth ==
    [][ op' = "monitor_node" =>
          LET call == IF arg' \in DOMAIN failed_nodes
                      THEN failed_nodes[arg'].failures + 2
                      ELSE 1
          IN  ret' = IF call >= 4 THEN "True" ELSE "False" ]_vars

C20_GenesisMeetsDifficulty ==
    op = "init" =>
        /\ Len(chain) = 1
        /\ chain[1].index = 0
        /\ chain[1].previous_hash = <<0>>
        /\ chain[1].difficulty = difficulty
        /\ startswith(chain[1].hash, Zeros(difficulty))

\* C21: broadcast_transaction and broadcast_block make one send attempt to
\* every peer of the registry, in registry order, whether or not an earlier
\* attempt failed, and return without raising.
C21_BroadcastAll ==
    [][ op' \in {"broadcast_transaction", "broadcast_block"}
        => /\ ret' = "None"
           /\ Len(outbox') = Len(peers)
           /\ \A i \in 1..Len(peers) :
                 /\ outbox'[i].peer = peers[i]
                 /\ outbox'[i].message.type =
                        (IF op' = "broadcast_block" THEN "block"
                         ELSE "transaction") ]_vars

\* a broadcast whose first attempt failed and whose second was delivered
C21_Witness ==
    /\ op = "broadcast_block"
    /\ Len(outbox) = 2
    /\ ~outbox[1].delivered
    /\ outbox[2].delivered

\* C22: every failed attempt of a broadcast adds one to the failure count of
\* that peer in the failed-node map, and the broadcast leaves the records of
\* all other peers as they were.
C22_FailureCounted ==
    [][ op' \in {"broadcast_transaction", "broadcast_block"}
        => \A p \in PeerAddresses :
              IF \E i \in 1..Len(outbox') :
                    outbox'[i].peer = p /\ ~outbox'[i].delivered
              THEN /\ p \in DOMAIN failed_nodes'
                   /\ p \in DOMAIN failed_nodes
                         => failed_nodes'[p].failures = failed_nodes[p].failures + 1
              ELSE /\ p \in DOMAIN failed_nodes' <=> p \in DOMAIN failed_nodes
                   /\ p \in DOMAIN failed_nodes
                         => failed_nodes'[p] = failed_nodes[p] ]_vars

\* C23: on a bitcoin_anchor message the server does not answer with the
\* unknown-type error, and it sends that envelope to every peer of its
\* registry.
C23_AnchorRebroadcast ==
    [][ (op' = "handle_client" /\ msg'.type = "bitcoin_anchor")
        => /\ response' # "error"
           /\ Len(outbox') = Len(peers)
           /\ \A i \in 1..Len(peers) :
                 /\ outbox'[i].peer = peers[i]
                 /\ outbox'[i].message = msg' ]_vars

\* C24: a message of an unsupported type is answered with status error and
\* reason unknown_message_type, and the chain, the pending pool, the
\* admission ledger and the peer registry stay as they were.
C24_UnknownType ==
    [][ (op' = "handle_client" /\ msg'.type \notin {"transaction", "block"})
        => /\ response' = "error"
           /\ reason' = "unknown_message_type"
           /\ UNCHANGED <<chain, pending_transactions, global_transaction_log,
                          peers>> ]_vars

\* an unsupported message answered by a node that has a peer, a pending
\* transaction and a ledger entry
C24_Witness ==
    /\ op = "handle_client"
    /\ msg.type = "ping"
    /\ response = "error"
    /\ peers # <<>>
    /\ pending_transactions # <<>>
    /\ global_transaction_log # <<>>

\* C25: each pass of the mining loop adds one to nonce1; a nonce1 that
\* reaches 1,000,000 becomes 0 and nonce2 grows by one; a nonce2 that reaches
\* 1,000,000 becomes 0 and nonce3 grows by one; so the nonces that are hashed
\* satisfy 0 <= nonce1 < 1,000,000 and 0 <= nonce2 < 1,000,000.
C25_NonceRollover ==
    [][ (pc = "mining" /\ iteration' = iteration + 1)
        => \E b \in {blk[1]}, c \in {blk'[1]} :
              /\ b.nonce1 + 1 < 1000000
                    => /\ c.nonce1 = b.nonce1 + 1
                       /\ c.nonce2 = b.nonce2
                       /\ c.nonce3 = b.nonce3
              /\ (b.nonce1 + 1 = 1000000 /\ b.nonce2 + 1 < 1000000)
                    => /\ c.nonce1 = 0
                       /\ c.nonce2 = b.nonce2 + 1
                       /\ c.nonce3 = b.nonce3
              /\ (b.nonce1 + 1 = 1000000 /\ b.nonce2 + 1 = 1000000)
                    => /\ c.nonce1 = 0
                       /\ c.nonce2 = 0
                       /\ c.nonce3 = b.nonce3 + 1
              /\ 0 <= c.nonce1 /\ c.nonce1 < 1000000
              /\ 0 <= c.nonce2 /\ c.nonce2 < 1000000 ]_vars

\* the pass that follows nonce1 = 999,999 has been made: the triple is (0,1,0)
C25_Witness ==
    /\ pc \in {"mining", "mined"}
    /\ iteration >= 1
    /\ blk[1].nonce1 = 0
    /\ blk[1].nonce2 = 1
    /\ blk[1].nonce3 = 0

\* C30: Block.mine_block always returns: a run that has started ends, and
\* while it runs it has made fewer than max_iterations passes, so it ends on
\* a target match or with the pass that brings the count to max_iterations.
C30_MiningTerminates ==
    /\ [](pc = "mining" => (max_iterations >= 1 /\ iteration < max_iterations))
    /\ (pc = "mining") ~> (pc = "mined" /\ iteration <= max_iterations)

\* a run that ended at the cap, after more than one pass, without a match
C30_Witness ==
    /\ pc = "mined"
    /\ iteration = max_iterations
    /\ iteration >= 2
    /\ ~meets_target(blk[1])

\* C26: add_block makes its checks in the order previous hash, difficulty,
\* proof of work, hash, and stops at the first that fails: the reason it
\* gives for a rejection is that of the lowest-numbered failing check.
C26_FirstFailingCheck ==
    [][ AddBlockStep
        => \E b \in {blk'[1]} :
           \E f1 \in {b.previous_hash # chain[Len(chain)].hash},
              f2 \in {b.difficulty # difficulty},
              f3 \in {~startswith(b.hash, Zeros(b.difficulty))},
              f4 \in {b.hash # calculate_hash(b)} :
              /\ (logged' = "Previous hash mismatch") <=> f1
              /\ (logged' = "Difficulty mismatch") <=> (~f1 /\ f2)
              /\ (logged' = "Proof of Work mismatch") <=> (~f1 /\ ~f2 /\ f3)
              /\ (logged' = "Hash mismatch") <=> (~f1 /\ ~f2 /\ ~f3 /\ f4)
              /\ (ret' = "False") <=> (f1 \/ f2 \/ f3 \/ f4) ]_vars

\* a block that fails the first and the second check was rejected for the
\* first
C26_Witness ==
    /\ op = "add_block"
    /\ ret = "False"
    /\ logged = "Previous hash mismatch"
    /\ blk[1].previous_hash # get_latest_block.hash
    /\ blk[1].difficulty # difficulty

\* C27: add_block returns True exactly when the block's previous_hash is the
\* tip's hash, its difficulty is the configured one, its hash has the zero
\* prefix and equals the recomputed hash; the chain is then the old chain
\* followed by that block; the pending pool and the ledger are unchanged.
C27_AcceptsIffValid ==
    [][ op' = "add_block"
        => /\ (ret' = "True") <=>
                 ( /\ blk[1].previous_hash = chain[Len(chain)].hash
                   /\ blk[1].difficulty = difficulty
                   /\ startswith(blk[1].hash, Zeros(blk[1].difficulty))
                   /\ blk[1].hash = calculate_hash(blk[1]) )
           /\ ret' \in {"True", "False"}
           /\ ret' = "True" => chain' = Append(chain, blk[1])
           /\ UNCHANGED <<pending_transactions, global_transaction_log>> ]_vars

\* a block was accepted while the pool and the ledger held a transaction
C27_Witness ==
    /\ op = "add_block"
    /\ ret = "True"
    /\ Len(chain) = 2
    /\ chain[2] = blk[1]
    /\ pending_transactions # <<>>
    /\ global_transaction_log # <<>>

\* C28: a block that node A has mined to its target, on the tip that peer B
\* has and at the difficulty B is configured with, and that broadcast_block
\* has delivered to B, is accepted by B: the reply is block_added and B's
\* chain is one block longer.
C28_RelayAccepted ==
    [][ ( /\ op' = "handle_client"
          /\ pc = "mined"
          /\ meets_target(blk[1])
          /\ blk[1].previous_hash = get_latest_block.hash
          /\ blk[1].difficulty = difficulty
          /\ msg' = BlockMessage(blk[1], blk[1].hash)
          /\ \E i \in 1..Len(outbox) :
                outbox[i].delivered /\ outbox[i].message = msg' )
        => /\ response' = "block_added"
           /\ Len(chain') = Len(chain) + 1 ]_vars

C31_IndexesIncrease ==
    /\ [](/\ chain[1].index = 0
          /\ \A i \in 1..(Len(chain) - 1) : chain[i].index < chain[i + 1].index)
    /\ [][ (AddBlockStep /\ ret' = "True")
           => blk'[1].index = chain[Len(chain)].index + 1 ]_vars

\* C32: validate_transaction is a query: whatever the id and the ledger, the
\* call leaves the ledger, the failed-node map and the timeout threshold as
\* they were.
C32_ValidateIsQuery ==
    [][ op' = "validate_transaction"
        => UNCHANGED <<global_transaction_log, failed_nodes, timeout_threshold>>
      ]_vars

\* a pending id was classified late while a node had a failure record and
\* the threshold had been adapted
C32_Witness ==
    /\ op = "validate_transaction"
    /\ ret = "late"
    /\ arg \in DOMAIN global_transaction_log
    /\ failed_nodes # <<>>
    /\ timeout_threshold # InitThreshold

\* C33: mark_transaction_completed of an id that is not in the ledger
\* leaves the ledger as it was and reports the id as not found; of an id
\* that is in the ledger it sets that entry's status to completed and
\* leaves its timestamp, its block snapshot and all other entries alone.
C33_MarkCompleted ==
    [][ op' = "mark_transaction_completed"
        => IF arg' \notin DOMAIN global_transaction_log
           THEN /\ global_transaction_log' = global_transaction_log
                /\ logged' = "not found in log"
           ELSE /\ DOMAIN global_transaction_log' = DOMAIN global_transaction_log
                /\ global_transaction_log'[arg'].status = "completed"
                /\ global_transaction_log'[arg'].timestamp =
                      global_transaction_log[arg'].timestamp
                /\ global_transaction_log'[arg'].block =
                      global_transaction_log[arg'].block
                /\ \A other \in DOMAIN global_transaction_log \ {arg'} :
                      global_transaction_log'[other] = global_transaction_log[other]
                /\ logged' # "not found in log" ]_vars

\* an unknown id was marked while the ledger held another, pending, entry
C33_Witness ==
    /\ op = "mark_transaction_completed"
    /\ logged = "not found in log"
    /\ arg \notin DOMAIN global_transaction_log
    /\ global_transaction_log # <<>>

\* C34: adapt_timeout("congested") replaces the threshold t by
\* t * (1 + learning_rate), adapt_timeout("smooth") by
\* max(5, t * (1 - learning_rate)), any other signal leaves it as it is, and
\* no call changes the ledger or the failed-node map.  The products are
\* those of the float arithmetic: equal to the exact ones within 1/Precision.
C34_AdaptRule ==
    [][ op' = "adapt_timeout"
        => \E t \in {timeout_threshold}, u \in {timeout_threshold'} :
           \E e \in {[num |-> t.num * (IF arg' = "congested" THEN 11 ELSE 9),
                      den |-> t.den * 10]} :
           \E diff \in {u.num * e.den - e.num * u.den} :
              /\ arg' = "congested"
                    => /\ diff * Precision <= u.den * e.den
                       /\ (0 - diff) * Precision <= u.den * e.den
              /\ arg' = "smooth"
                    => IF e.num <= 5 * e.den
                       THEN u.num = 5 * u.den
                       ELSE /\ diff * Precision <= u.den * e.den
                            /\ (0 - diff) * Precision <= u.den * e.den
                            /\ u.num >= 5 * u.den
              /\ arg' \notin {"congested", "smooth"} => u = t
              /\ UNCHANGED <<global_transaction_log, failed_nodes>> ]_vars

\* a smooth signal was answered with the floor of 5 seconds while the ledger
\* held an entry and a node had a failure record
C34_Witness ==
    /\ op = "adapt_timeout"
    /\ arg = "smooth"
    /\ timeout_threshold = [num |-> 5, den |-> 1]
    /\ global_transaction_log # <<>>
    /\ failed_nodes # <<>>

\* C35: persist_data and load_data return normally whether or not the file
\* operation fails: persist_data changes nothing in memory, and a load_data
\* that fails leaves the ledger, the failed-node map and the threshold
\* exactly as they were.
C35_SnapshotFailure ==
    [][ /\ op' = "persist_data" => (ret' = "None" /\ UNCHANGED qvars)
        /\ op' = "load_data" => ret' \in {"None", "running"}
        /\ logged' = "Failed to load Q System data"
              => /\ op' = "load_data"
                 /\ ret' = "None"
                 /\ load_pc' = "idle"
                 /\ UNCHANGED qvars ]_vars

\* a load_data failed on a QSystem that held a ledger entry, a failure
\* record and an adapted threshold
C35_Witness ==
    /\ op = "load_data"
    /\ logged = "Failed to load Q System data"
    /\ global_transaction_log # <<>>
    /\ failed_nodes # <<>>
    /\ timeout_threshold # InitThreshold

\* C36: a transaction whose id the node has never seen can be admitted:
\* calls of the /add_transaction route and of the peer transaction handler
\* bring it into the pending pool.
C36_CanBeAdmitted == <>(pending_transactions # <<>>)

\* what holds instead: however the two handlers are called, the pool stays
\* empty, every call being answered invalid
PoolStaysEmpty ==
    /\ pending_transactions = <<>>
    /\ op = "add_transaction_route" => ret = "400"
    /\ op = "handle_client" => response = "invalid"

\* C37: broadcast_transaction sends every peer an envelope that carries the
\* transaction_id the caller passed in, and leaves the caller's transaction
\* with that same transaction_id.
C37_IdPreserved ==
    [][ op' = "broadcast_transaction"
        => /\ \A i \in 1..Len(outbox') :
                 outbox'[i].message.transaction_id = arg'.passed
           /\ arg'.left = arg'.passed ]_vars

\* C38: within one mining run two different nonce triples never give the
\* same hash input: the text hashed for a trial differs for every distinct
\* triple.
C38_DistinctInputs ==
    (op = "hash_input" /\ arg[1] # arg[2]) => ret = "different"

====
